---- MODULE Spec2Model ----
(***************************************************************************)
(* ARC data tools: the grid renderer and challenge composer of             *)
(* arc_visualizer.py, the integer histogram of arc_histogram.py and the    *)
(* statistics aggregator of arc_explorer.py.                               *)
(*                                                                         *)
(* A grid is a sequence of rows, a row a sequence of palette values; the   *)
(* Python index p of a row or column is index p + 1 here.                  *)
(***************************************************************************)
EXTENDS Integers, Sequences, FiniteSets, TLC

VARIABLES
    pg_in,          \* plot_grid: the arguments of the last call, or None
    pg_out,         \* plot_grid: what the last call built, or None
    v_pc,           \* visualizer: where main is
    v_args,         \* visualizer: the parsed command line
    v_keys,         \* visualizer: the challenge ids, in the file's order
    v_challenges,   \* visualizer: challenge id -> challenge
    v_solutions,    \* visualizer: challenge id -> solution grids
    v_dirs,         \* visualizer: the directories that exist
    v_files,        \* visualizer: the image files written
    v_save_dir,     \* visualizer: the directory the images go to
    v_queue,        \* visualizer: the challenge ids still to visualize
    v_fig,          \* visualizer: the figure being composed, or None
    v_open,         \* visualizer: the ids of the figures that are open
    v_log,          \* visualizer: the messages printed
    h_pc,           \* histogram: where main is
    h_disk,         \* histogram: the four data files, or None before the first run
    h_args,         \* histogram: the parsed command line
    h_all,          \* histogram: all_integers
    h_title,        \* histogram: title_parts
    h_counter,      \* histogram: the Counter create_histogram returns
    h_chart,        \* histogram: what create_histogram drew
    h_table,        \* histogram: what print_statistics printed
    h_log,          \* histogram: the messages printed by main
    h_runs,         \* histogram: flags -> what the finished run with them reported
    e_pc,           \* explorer: where main is
    e_keys,         \* explorer: the challenge ids, in the file's order
    e_challenges,   \* explorer: challenge id -> challenge
    e_solutions,    \* explorer: challenge id -> solution grids
    e_stats,        \* explorer: what analyze_data_statistics returned, or None
    e_interesting,  \* explorer: what find_interesting_challenges returned, or None
    e_plots,        \* explorer: what create_statistics_plots drew, or None
    e_recs          \* explorer: the recommendations printed

gridVars == <<pg_in, pg_out>>
visVars == <<v_pc, v_args, v_keys, v_challenges, v_solutions, v_dirs, v_files,
             v_save_dir, v_queue, v_fig, v_open, v_log>>
histVars == <<h_pc, h_disk, h_args, h_all, h_title, h_counter, h_chart, h_table,
              h_log, h_runs>>
expVars == <<e_pc, e_keys, e_challenges, e_solutions, e_stats, e_interesting,
             e_plots, e_recs>>
vars == <<gridVars, visVars, histVars, expVars>>

None == [none |-> TRUE]

\* An optional value: Python's None, or a value.
Absent == [some |-> FALSE]
Some(x) == [some |-> TRUE, val |-> x]

\* dict.get(key): the value, or None.
Get(map, key) == IF key \in DOMAIN map THEN Some(map[key]) ELSE Absent

(***************************************************************************)
(* Bounds of the model and constants of the program.                       *)
(***************************************************************************)
MaxDim == 4              \* small grids have 1..MaxDim rows and columns
SmallMaxSize == 3        \* a second, small value of plot_grid's max_size
DefaultMaxSize == 30     \* plot_grid's default max_size
PaddingValue == -1       \* the value plot_grid fills the padded grid with
PaletteSize == 10        \* the palette is 0 .. 9

Palette == 0 .. (PaletteSize - 1)

Max2(a, b) == IF a >= b THEN a ELSE b
Min2(a, b) == IF a <= b THEN a ELSE b

(***************************************************************************)
(* Input grids: h rows of w cells that cycle through k palette values      *)
(* starting at base, in row-major order.                                   *)
(***************************************************************************)
PatternGrid(h, w, base, k) ==
    [i \in 1 .. h |-> [j \in 1 .. w |-> (base + (((i - 1) * w + (j - 1)) % k)) % PaletteSize]]

Height(grid) == Len(grid)
Width(grid) == IF Len(grid) = 0 THEN 0 ELSE Len(grid[1])

(***************************************************************************)
(* numpy basic slicing: the indices a slice start:stop selects on an axis  *)
(* of length n (a negative bound counts from the end, then both are        *)
(* clipped to 0 .. n), as the first index and the number of indices.       *)
(***************************************************************************)
SliceBound(x, n) ==
    LET y == IF x < 0 THEN x + n ELSE x
    IN  IF y < 0 THEN 0 ELSE IF y > n THEN n ELSE y

SliceStart(start, stop, n) == SliceBound(start, n)

SliceLen(start, stop, n) == Max2(0, SliceBound(stop, n) - SliceBound(start, n))

\* numpy broadcasting of a source axis of length src onto a target axis of
\* length dst: the lengths agree, or the source axis has length 1.
Broadcasts(src, dst) == src = dst \/ src = 1

(***************************************************************************)
(* plot_grid(ax, grid, title, max_size): the display grid and its size, or *)
(* the ValueError numpy raises when the slice assignment cannot broadcast. *)
(***************************************************************************)
PaddedAssign(grid, max_size, start_h, start_w) ==
    LET oh == Height(grid)
        ow == Width(grid)
        r0 == SliceStart(start_h, start_h + oh, max_size)
        rn == SliceLen(start_h, start_h + oh, max_size)
        c0 == SliceStart(start_w, start_w + ow, max_size)
        cn == SliceLen(start_w, start_w + ow, max_size)
    IN  IF ~(Broadcasts(oh, rn) /\ Broadcasts(ow, cn))
        THEN [status |-> "ValueError"]
        ELSE [status |-> "ok",
              grid |-> [i \in 1 .. max_size |-> [j \in 1 .. max_size |->
                          IF /\ i - 1 >= r0 /\ i - 1 < r0 + rn
                             /\ j - 1 >= c0 /\ j - 1 < c0 + cn
                          THEN grid[IF oh = 1 THEN 1 ELSE i - r0][IF ow = 1 THEN 1 ELSE j - c0]
                          ELSE PaddingValue]]]

\* Faulty variant: a grid that is exactly max_size on one side counts as small too.
UsePadding_AtMost(original_height, original_width, max_size) ==
    original_height <= max_size \/ original_width <= max_size

UsePadding(original_height, original_width, max_size) ==
    original_height < max_size \/ original_width < max_size

\* Faulty variant: the grid is put in the top-left corner instead of the centre.
StartOffset_TopLeft(max_size, original) == 0

StartOffset(max_size, original) == (max_size - original) \div 2

plot_grid(grid, title, max_size) ==
    LET original_height == Height(grid)
        original_width == Width(grid)
    IN  IF UsePadding(original_height, original_width, max_size)
        THEN LET start_h == StartOffset(max_size, original_height)
                 start_w == StartOffset(max_size, original_width)
                 padded == PaddedAssign(grid, max_size, start_h, start_w)
             IN  IF padded.status = "ValueError"
                 THEN [status |-> "ValueError", title |-> title]
                 ELSE [status |-> "ok", title |-> title,
                       display_grid |-> padded.grid,
                       display_height |-> max_size, display_width |-> max_size]
        ELSE [status |-> "ok", title |-> title,
              display_grid |-> grid,
              display_height |-> original_height, display_width |-> original_width]

(***************************************************************************)
(* The renderer on its own: one call of plot_grid on any grid.             *)
(***************************************************************************)
MaxSizes == {SmallMaxSize, DefaultMaxSize}
GridDims(max_size) == (1 .. MaxDim) \cup {max_size - 1, max_size, max_size + 1}
GridBases == {0, 7}
GridCycles == {1, 3, PaletteSize}

PlotGrid ==
    /\ pg_in = None
    /\ \E max_size \in MaxSizes :
      \E h \in GridDims(max_size), w \in GridDims(max_size) :
        \E base \in GridBases, k \in GridCycles :
          LET grid == PatternGrid(h, w, base, k)
          IN  /\ pg_in' = [grid |-> grid, max_size |-> max_size]
              /\ pg_out' = plot_grid(grid, "Grid", max_size)
    /\ UNCHANGED <<visVars, histVars, expVars>>

InitGridVars == pg_in = None /\ pg_out = None

(***************************************************************************)
(* The challenges the tools load.  A challenge has train examples (input   *)
(* and output grid) and test examples (input grid); a solution list holds  *)
(* one grid per test example.  Every grid of a loaded challenge is an ARC  *)
(* grid: 1 to 30 rows and columns of palette values.                       *)
(***************************************************************************)
MaxTrain == 2            \* a challenge has 0 .. MaxTrain train examples
MaxTest == 2             \* a challenge has 0 .. MaxTest test examples
DefaultNSamples == 100   \* the visualizer's default --n-samples

MkChallenge(n, m) ==
    [train |-> [i \in 1 .. n |-> [input |-> PatternGrid(i, i + 1, i, 3),
                                  output |-> PatternGrid(i + 1, i, i + 1, 2)]],
     test |-> [i \in 1 .. m |-> [input |-> PatternGrid(2, i, 4 + i, 2)]]]

MkSolutions(s) == [i \in 1 .. s |-> PatternGrid(i, 2, 5 + i, 2)]

SeqToSet(seq) == {seq[p] : p \in 1 .. Len(seq)}

\* Python truthiness of an optional string or list: None and the empty
\* string or list are false.
Truthy(opt) == opt.some /\ Len(opt.val) > 0

(***************************************************************************)
(* visualize_challenge: the figure it composes.                            *)
(***************************************************************************)
Title(kind, number, part) == [kind |-> kind, number |-> number, part |-> part]

\* plt.subplot(nrows, ncols, index): the axes at the index-th position of
\* the grid, counted row by row from 1; an index outside it is a ValueError.
Subplot(nrows, ncols, index) ==
    IF index < 1 \/ index > nrows * ncols
    THEN [status |-> "ValueError", pos |-> index]
    ELSE [status |-> "ok", pos |-> index,
          row |-> ((index - 1) \div ncols) + 1,
          col |-> ((index - 1) % ncols) + 1]

\* An axes with a grid drawn by plot_grid (the cells drawn are plot_grid's
\* display grid of the grid kept here).
GridPanel(ax, grid, title) ==
    LET drawn == plot_grid(grid, title, DefaultMaxSize)
    IN  IF ax.status # "ok" THEN [status |-> "ValueError", pos |-> ax.pos]
        ELSE IF drawn.status # "ok" THEN [status |-> "ValueError", pos |-> ax.pos]
        ELSE [status |-> "ok", pos |-> ax.pos, row |-> ax.row, col |-> ax.col,
              kind |-> "grid", title |-> title, grid |-> grid,
              display_height |-> drawn.display_height,
              display_width |-> drawn.display_width]

\* An axes with the placeholder text.
PlaceholderPanel(ax, title) ==
    IF ax.status # "ok" THEN [status |-> "ValueError", pos |-> ax.pos]
    ELSE [status |-> "ok", pos |-> ax.pos, row |-> ax.row, col |-> ax.col,
          kind |-> "placeholder", title |-> title, text |-> "No Solution\nAvailable"]

\* Faulty variant: the last solution of the list is not used.
HasSolution_OffByOne(solution_data, i) ==
    Truthy(solution_data) /\ i < Len(solution_data.val) - 1

\* solution_data and i < len(solution_data)
HasSolution(solution_data, i) ==
    Truthy(solution_data) /\ i < Len(solution_data.val)

MaxCols(n_train, n_test) == Max2(n_train * 2, n_test * 2)

\* Faulty variant: the second row starts after the train columns, not after max_cols.
TestPos_AfterTrain(n_train, max_cols, i, k) == (n_train * 2) + (i * 2) + k

\* input_pos (k = 1) and solution_pos (k = 2) of test example i.
TestPos(n_train, max_cols, i, k) == max_cols + (i * 2) + k

RECURSIVE TrainLoop(_, _, _)
TrainLoop(train_examples, max_cols, i) ==
    IF i >= Len(train_examples) THEN <<>>
    ELSE << GridPanel(Subplot(2, max_cols, i * 2 + 1),
                      train_examples[i + 1].input, Title("Train", i + 1, "Input")),
            GridPanel(Subplot(2, max_cols, i * 2 + 2),
                      train_examples[i + 1].output, Title("Train", i + 1, "Output")) >>
         \o TrainLoop(train_examples, max_cols, i + 1)

RECURSIVE TestLoop(_, _, _, _, _)
TestLoop(test_examples, solution_data, n_train, max_cols, i) ==
    IF i >= Len(test_examples) THEN <<>>
    ELSE LET input_pos == TestPos(n_train, max_cols, i, 1)
             solution_pos == TestPos(n_train, max_cols, i, 2)
         IN  << GridPanel(Subplot(2, max_cols, input_pos),
                          test_examples[i + 1].input, Title("Test", i + 1, "Input")),
                IF HasSolution(solution_data, i)
                THEN GridPanel(Subplot(2, max_cols, solution_pos),
                               solution_data.val[i + 1], Title("Test", i + 1, "Solution"))
                ELSE PlaceholderPanel(Subplot(2, max_cols, solution_pos),
                                      Title("Test", i + 1, "Solution")) >>
             \o TestLoop(test_examples, solution_data, n_train, max_cols, i + 1)

\* The panels drawn before the first one that raises.
RECURSIVE DrawnBeforeError(_)
DrawnBeforeError(panels) ==
    IF panels = <<>> \/ Head(panels).status # "ok" THEN <<>>
    ELSE <<Head(panels)>> \o DrawnBeforeError(Tail(panels))

ComposeFigure(challenge_id, challenge_data, solution_data) ==
    LET train_examples == challenge_data.train
        test_examples == challenge_data.test
        n_train == Len(train_examples)
        n_test == Len(test_examples)
        max_cols == MaxCols(n_train, n_test)
        panels == TrainLoop(train_examples, max_cols, 0)
                    \o TestLoop(test_examples, solution_data, n_train, max_cols, 0)
        drawn == DrawnBeforeError(panels)
    IN  [challenge_id |-> challenge_id, nrows |-> 2, max_cols |-> max_cols,
         panels |-> drawn,
         status |-> IF Len(drawn) = Len(panels) THEN "ok" ELSE "ValueError"]

(***************************************************************************)
(* The visualizer's main.                                                  *)
(***************************************************************************)
SavePath(save_dir, challenge_id) == <<save_dir, "challenge_", challenge_id, ".png">>
TimestampedDir == "examples/timestamp"

\* random.sample(ids, k): any k distinct ids, in any order.
Samples(ids, k) ==
    {q \in [1 .. k -> ids] : \A a, b \in 1 .. k : a # b => q[a] # q[b]}

\* main, lines 204-219: the command line is parsed and the data loaded.
V_Main ==
    /\ v_pc = "start"
    /\ \E n \in 0 .. MaxTrain, m \in 0 .. MaxTest,
          sol \in {Absent} \cup {Some(MkSolutions(s)) : s \in 0 .. MaxTest},
          keys \in {<<>>, <<"c1">>, <<"c1", "c2">>},
          cid \in {Absent, Some(""), Some("c1"), Some("zz")},
          sdir \in {Absent, Some("out")},
          ns \in {1, DefaultNSamples},
          dirs \in {{}, {"out"}} :
        /\ n + m >= 1      \* a challenge of the files has at least one example
        /\ v_args' = [challenge_id |-> cid, n_samples |-> ns, save_dir |-> sdir]
        /\ v_keys' = keys
        /\ v_challenges' = [k \in SeqToSet(keys) |->
                              IF k = "c1" THEN MkChallenge(n, m) ELSE MkChallenge(1, 1)]
        /\ v_solutions' = [k \in {x \in SeqToSet(keys) : x = "c2" \/ sol.some} |->
                              IF k = "c1" THEN sol.val ELSE MkSolutions(1)]
        /\ v_dirs' = dirs
    /\ v_pc' = "loaded"
    /\ v_log' = Append(v_log, [msg |-> "Loaded"])
    /\ UNCHANGED <<v_files, v_save_dir, v_queue, v_fig, v_open, gridVars, histVars, expVars>>

\* Faulty variant: the save directory is made before the id is looked up.
V_NotFound_AfterMkdir ==
    /\ v_pc = "loaded"
    /\ Truthy(v_args.challenge_id)
    /\ v_args.challenge_id.val \notin DOMAIN v_challenges
    /\ v_dirs' = v_dirs \cup {IF Truthy(v_args.save_dir) THEN v_args.save_dir.val
                               ELSE TimestampedDir}
    /\ v_log' = Append(v_log, [msg |-> "not found", id |-> v_args.challenge_id.val])
    /\ v_pc' = "done"
    /\ UNCHANGED <<v_args, v_keys, v_challenges, v_solutions, v_files,
                   v_save_dir, v_queue, v_fig, v_open, gridVars, histVars, expVars>>

\* main, lines 221-225: the requested challenge is not among the challenges.
V_NotFound ==
    /\ v_pc = "loaded"
    /\ Truthy(v_args.challenge_id)
    /\ v_args.challenge_id.val \notin DOMAIN v_challenges
    /\ v_log' = Append(v_log, [msg |-> "not found", id |-> v_args.challenge_id.val])
    /\ v_pc' = "done"
    /\ UNCHANGED <<v_args, v_keys, v_challenges, v_solutions, v_dirs, v_files,
                   v_save_dir, v_queue, v_fig, v_open, gridVars, histVars, expVars>>

\* main, lines 227-234: the save directory of the requested challenge.
V_SingleSetup ==
    /\ v_pc = "loaded"
    /\ Truthy(v_args.challenge_id)
    /\ v_args.challenge_id.val \in DOMAIN v_challenges
    /\ LET save_dir == IF Truthy(v_args.save_dir) THEN v_args.save_dir.val
                       ELSE TimestampedDir
       IN  /\ v_dirs' = v_dirs \cup {save_dir}
           /\ v_save_dir' = save_dir
    /\ v_queue' = <<v_args.challenge_id.val>>
    /\ v_pc' = "visualize"
    /\ UNCHANGED <<v_args, v_keys, v_challenges, v_solutions, v_files, v_fig,
                   v_open, v_log, gridVars, histVars, expVars>>

\* main, lines 238-241, and visualize_random_challenges, lines 182-189: the
\* save directory (created only when none was given) and the sample.
V_RandomSetup ==
    /\ v_pc = "loaded"
    /\ ~Truthy(v_args.challenge_id)
    /\ IF Truthy(v_args.save_dir)
       THEN v_save_dir' = v_args.save_dir.val /\ v_dirs' = v_dirs
       ELSE v_save_dir' = TimestampedDir /\ v_dirs' = v_dirs \cup {TimestampedDir}
    /\ \E challenge_ids \in Samples(SeqToSet(v_keys),
                                    Min2(v_args.n_samples, Len(v_keys))) :
         /\ v_queue' = challenge_ids
         /\ v_pc' = IF challenge_ids = <<>> THEN "finish" ELSE "visualize"
    /\ v_log' = Append(v_log, [msg |-> "Visualizing"])
    /\ UNCHANGED <<v_args, v_keys, v_challenges, v_solutions, v_files, v_fig,
                   v_open, gridVars, histVars, expVars>>

\* visualize_challenge, lines 110-164: the figure is created and composed.
V_Figure ==
    /\ v_pc = "visualize"
    /\ LET challenge_id == Head(v_queue)
           fig == ComposeFigure(challenge_id, v_challenges[challenge_id],
                                Get(v_solutions, challenge_id))
       IN  /\ v_fig' = fig
           /\ v_open' = Append(v_open, challenge_id)
           /\ v_pc' = IF fig.status = "ok" THEN "save" ELSE "crashed"
    /\ UNCHANGED <<v_args, v_keys, v_challenges, v_solutions, v_dirs, v_files,
                   v_save_dir, v_queue, v_log, gridVars, histVars, expVars>>

\* visualize_challenge, lines 166-168: the figure is written to save_path;
\* writing into a directory that does not exist raises.
V_Save ==
    /\ v_pc = "save"
    /\ IF v_save_dir \in v_dirs
       THEN /\ v_files' = v_files \cup {SavePath(v_save_dir, v_fig.challenge_id)}
            /\ v_log' = Append(v_log, [msg |-> "Saved", id |-> v_fig.challenge_id])
            /\ v_pc' = "close"
       ELSE /\ v_pc' = "crashed"
            /\ UNCHANGED <<v_files, v_log>>
    /\ UNCHANGED <<v_args, v_keys, v_challenges, v_solutions, v_dirs, v_save_dir,
                   v_queue, v_fig, v_open, gridVars, histVars, expVars>>

\* Faulty variant: the figure is not closed after it was saved.
V_Close_LeavesOpen ==
    /\ v_pc = "close"
    /\ v_open' = v_open
    /\ v_fig' = None
    /\ v_queue' = Tail(v_queue)
    /\ v_pc' = IF Tail(v_queue) = <<>> THEN "finish" ELSE "visualize"
    /\ UNCHANGED <<v_args, v_keys, v_challenges, v_solutions, v_dirs, v_files,
                   v_save_dir, v_log, gridVars, histVars, expVars>>

\* visualize_challenge, line 169: the figure is closed; the caller goes on
\* with the next challenge.
V_Close ==
    /\ v_pc = "close"
    /\ v_open' = SelectSeq(v_open, LAMBDA id : id # v_fig.challenge_id)
    /\ v_fig' = None
    /\ v_queue' = Tail(v_queue)
    /\ v_pc' = IF Tail(v_queue) = <<>> THEN "finish" ELSE "visualize"
    /\ UNCHANGED <<v_args, v_keys, v_challenges, v_solutions, v_dirs, v_files,
                   v_save_dir, v_log, gridVars, histVars, expVars>>

\* visualize_random_challenges, line 200, and main, line 243.
V_Finish ==
    /\ v_pc = "finish"
    /\ v_log' = Append(v_log, [msg |-> "Visualization complete!"])
    /\ v_pc' = "done"
    /\ UNCHANGED <<v_args, v_keys, v_challenges, v_solutions, v_dirs, v_files,
                   v_save_dir, v_queue, v_fig, v_open, gridVars, histVars, expVars>>

InitVisVars ==
    /\ v_pc = "start"
    /\ v_args = None
    /\ v_keys = <<>>
    /\ v_challenges = <<>>
    /\ v_solutions = <<>>
    /\ v_dirs = {}
    /\ v_files = {}
    /\ v_save_dir = ""
    /\ v_queue = <<>>
    /\ v_fig = None
    /\ v_open = <<>>
    /\ v_log = <<>>

(***************************************************************************)
(* The histogram tool: extract_all_integers, create_histogram,             *)
(* print_statistics and main of arc_histogram.py.                          *)
(***************************************************************************)
MaxChallenges == 2       \* a data file of the histogram tool holds 0 .. MaxChallenges challenges
MaxRuns == 3             \* the tool is run at most MaxRuns times on the same files

RECURSIVE Flatten(_)
\* for row in grid: all_integers.extend(row)
Flatten(grid) == IF grid = <<>> THEN <<>> ELSE Head(grid) \o Flatten(Tail(grid))

RECURSIVE ExtractTrain(_)
ExtractTrain(examples) ==
    IF examples = <<>> THEN <<>>
    ELSE Flatten(Head(examples).input) \o Flatten(Head(examples).output)
           \o ExtractTrain(Tail(examples))

RECURSIVE ExtractTest(_)
ExtractTest(examples) ==
    IF examples = <<>> THEN <<>>
    ELSE Flatten(Head(examples).input) \o ExtractTest(Tail(examples))

RECURSIVE ExtractSolutions(_)
ExtractSolutions(solution_outputs) ==
    IF solution_outputs = <<>> THEN <<>>
    ELSE Flatten(Head(solution_outputs)) \o ExtractSolutions(Tail(solution_outputs))

\* extract_all_integers, the body of the loop over the challenges.
ExtractChallenge(challenge_id, challenge_data, solutions) ==
    ExtractTrain(challenge_data.train) \o ExtractTest(challenge_data.test)
      \o (IF challenge_id \in DOMAIN solutions
          THEN ExtractSolutions(solutions[challenge_id]) ELSE <<>>)

RECURSIVE ExtractLoop(_, _, _)
ExtractLoop(keys, challenges, solutions) ==
    IF keys = <<>> THEN <<>>
    ELSE ExtractChallenge(Head(keys), challenges[Head(keys)], solutions)
           \o ExtractLoop(Tail(keys), challenges, solutions)

\* extract_all_integers(challenges, solutions), the challenges in file order.
extract_all_integers(file) == ExtractLoop(file.keys, file.challenges, file.solutions)

(***************************************************************************)
(* collections.Counter: the keys in the order they were first seen, and    *)
(* each key's count.                                                       *)
(***************************************************************************)
RECURSIVE FirstSeen(_, _)
FirstSeen(seq, seen) ==
    IF seq = <<>> THEN <<>>
    ELSE IF Head(seq) \in seen THEN FirstSeen(Tail(seq), seen)
    ELSE <<Head(seq)>> \o FirstSeen(Tail(seq), seen \cup {Head(seq)})

Occurrences(seq, x) == Cardinality({p \in 1 .. Len(seq) : seq[p] = x})

Counter(seq) ==
    [order |-> FirstSeen(seq, {}),
     count |-> [x \in SeqToSet(seq) |-> Occurrences(seq, x)]]

\* counter.get(i, 0)
CounterGet(counter, i) == IF i \in DOMAIN counter.count THEN counter.count[i] ELSE 0

\* counter.items(), in the Counter's order
CounterItems(counter) ==
    [p \in 1 .. Len(counter.order) |-> <<counter.order[p], counter.count[counter.order[p]]>>]

RECURSIVE SumSeq(_)
SumSeq(seq) == IF seq = <<>> THEN 0 ELSE Head(seq) + SumSeq(Tail(seq))

RECURSIVE MaxSeq(_)
MaxSeq(seq) == IF Len(seq) = 1 THEN Head(seq) ELSE Max2(Head(seq), MaxSeq(Tail(seq)))

\* np.argmax(values): the first index (from 0) of the largest value.
ArgMax(values) ==
    CHOOSE p \in 0 .. Len(values) - 1 :
        /\ \A q \in 0 .. Len(values) - 1 : values[q + 1] <= values[p + 1]
        /\ \A q \in 0 .. p - 1 : values[q + 1] < values[p + 1]

\* np.argmin([f if f > 0 else inf for f in frequencies]): the first index of
\* the smallest non-zero frequency; index 0 when every entry is inf.
ArgMinNonZero(frequencies) ==
    IF \A q \in 1 .. Len(frequencies) : frequencies[q] <= 0 THEN 0
    ELSE CHOOSE p \in 0 .. Len(frequencies) - 1 :
        /\ frequencies[p + 1] > 0
        /\ \A q \in 0 .. Len(frequencies) - 1 :
             frequencies[q + 1] > 0 => frequencies[p + 1] <= frequencies[q + 1]
        /\ \A q \in 0 .. p - 1 :
             frequencies[q + 1] > 0 => frequencies[p + 1] < frequencies[q + 1]

\* max(items, key=lambda x: x[1]): the first item with the largest count.
MaxItem(items) ==
    items[CHOOSE p \in 1 .. Len(items) :
            /\ \A q \in 1 .. Len(items) : items[q][2] <= items[p][2]
            /\ \A q \in 1 .. p - 1 : items[q][2] < items[p][2]]

\* min(items, key=lambda x: x[1]): the first item with the smallest count.
MinItem(items) ==
    items[CHOOSE p \in 1 .. Len(items) :
            /\ \A q \in 1 .. Len(items) : items[q][2] >= items[p][2]
            /\ \A q \in 1 .. p - 1 : items[q][2] > items[p][2]]

\* Faulty variant: the bars stop one short of the last palette value.
Integers_OneShort == [p \in 1 .. PaletteSize - 1 |-> p - 1]

\* integers = list(range(10))
Integers_0_9 == [p \in 1 .. PaletteSize |-> p - 1]

\* create_histogram, lines 79-113: the bars and the statistics box.
create_histogram(all_integers, save_path, title) ==
    LET counter == Counter(all_integers)
        integers == Integers_0_9
        frequencies == [p \in 1 .. Len(integers) |-> CounterGet(counter, integers[p])]
    IN  [counter |-> counter,
         title |-> title,
         integers |-> integers,
         frequencies |-> frequencies,
         total_count |-> SumSeq(frequencies),
         unique_values |-> Cardinality({p \in 1 .. Len(frequencies) : frequencies[p] > 0}),
         most_common |-> integers[ArgMax(frequencies) + 1],
         most_common_times |-> MaxSeq(frequencies),
         least_common |-> integers[ArgMinNonZero(frequencies) + 1],
         saved_to |-> save_path]

\* print_statistics, lines 138-164; with an empty counter max() raises.
print_statistics(counter) ==
    LET items == CounterItems(counter)
        total == SumSeq([p \in 1 .. Len(items) |-> items[p][2]])
        positive == SelectSeq(items, LAMBDA it : it[2] > 0)
    IN  IF items = <<>> THEN [status |-> "ValueError", total |-> total]
        ELSE [status |-> "ok",
              total |-> total,
              unique_values |-> Len(positive),
              rows |-> [i \in 0 .. PaletteSize - 1 |->
                          [count |-> CounterGet(counter, i),
                           bar_length |-> IF total > 0
                                          THEN (20 * CounterGet(counter, i)) \div total
                                          ELSE 0]],
              most_common |-> MaxItem(items),
              least_common |-> MinItem(positive)]

(***************************************************************************)
(* The data files of the histogram tool.                                   *)
(***************************************************************************)
HistChallenge(id) ==
    CASE id = "a" -> [train |-> << [input |-> << <<2, 1>> >>, output |-> << <<1, 2>> >>] >>,
                      test |-> << [input |-> << <<3>> >>] >>]
      [] id = "b" -> [train |-> << [input |-> << <<9, 0>>, <<0, 9>> >>, output |-> << <<5>> >>] >>,
                      test |-> <<>>]
      [] id = "c" -> [train |-> <<>>,
                      test |-> << [input |-> << <<7, 7, 4>> >>], [input |-> << <<4>> >>] >>]

HistSolution(id) ==
    CASE id = "a" -> << << <<3>> >> >>
      [] id = "c" -> << << <<4>>, <<8>> >>, << <<7>> >> >>

HistIds == {"a", "b", "c"}
HistSolved == {"a", "c"}

\* The key sequences of a file: up to MaxChallenges distinct ids, any order.
KeySeqs == UNION {Samples(HistIds, k) : k \in 0 .. Min2(MaxChallenges, Cardinality(HistIds))}

HistFile(keys) ==
    [keys |-> keys,
     challenges |-> [id \in SeqToSet(keys) |-> HistChallenge(id)],
     solutions |-> [id \in SeqToSet(keys) \cap HistSolved |-> HistSolution(id)]]

Flags(args) == [training_only |-> args.training_only, test_only |-> args.test_only]

\* Faulty variant: --training-only does not switch the test data off.
IncludeTest_Always(args) == TRUE

\* Faulty variant: --test-only does not switch the training data off.
IncludeTraining_Always(args) == TRUE

\* include_training = not args.test_only; include_test = not args.training_only
IncludeTraining(args) == ~args.test_only
IncludeTest(args) == ~args.training_only

\* main, lines 168-186: the command line is parsed and the four files are
\* loaded; a later run of the tool finds the same files.
H_Main ==
    /\ h_pc \in {"start", "done"}
    /\ Cardinality(DOMAIN h_runs) < MaxRuns
    /\ \E training_only \in BOOLEAN, test_only \in BOOLEAN, auto_save \in BOOLEAN :
         /\ [training_only |-> training_only, test_only |-> test_only] \notin DOMAIN h_runs
         /\ h_args' = [training_only |-> training_only, test_only |-> test_only,
                       save_path |-> Absent, auto_save |-> auto_save]
    /\ IF h_disk = None
       THEN \E train_keys \in KeySeqs, test_keys \in KeySeqs :
              h_disk' = [train |-> HistFile(train_keys), test |-> HistFile(test_keys)]
       ELSE h_disk' = h_disk
    /\ h_pc' = "loaded"
    /\ h_all' = <<>>
    /\ h_title' = <<>>
    /\ h_counter' = None
    /\ h_chart' = None
    /\ h_table' = None
    /\ h_log' = <<"Loaded">>
    /\ UNCHANGED <<h_runs, gridVars, visVars, expVars>>

\* main, lines 187-190: a data file is missing.
H_LoadError ==
    /\ h_pc = "start"
    /\ h_disk = None
    /\ h_log' = <<"Error loading data">>
    /\ h_pc' = "failed"
    /\ UNCHANGED <<h_disk, h_args, h_all, h_title, h_counter, h_chart, h_table,
                   h_runs, gridVars, visVars, expVars>>

RunRecord(all_integers, chart, table) ==
    [collected |-> Len(all_integers), chart |-> chart, table |-> table]

\* main, lines 192-218: the integers of the selected data are collected.
H_Collect ==
    /\ h_pc = "loaded"
    /\ LET train_integers == IF IncludeTraining(h_args)
                             THEN extract_all_integers(h_disk.train) ELSE <<>>
           test_integers == IF IncludeTest(h_args)
                            THEN extract_all_integers(h_disk.test) ELSE <<>>
           all_integers == train_integers \o test_integers
           title_parts == (IF IncludeTraining(h_args) THEN <<"Training">> ELSE <<>>)
                            \o (IF IncludeTest(h_args) THEN <<"Test">> ELSE <<>>)
       IN  /\ h_all' = all_integers
           /\ h_title' = title_parts
           /\ IF all_integers = <<>>
              THEN /\ h_log' = Append(h_log, "No data selected!")
                   /\ h_pc' = "done"
                   /\ h_runs' = [f \in DOMAIN h_runs \cup {Flags(h_args)} |->
                                   IF f = Flags(h_args)
                                   THEN RunRecord(all_integers, Absent, Absent)
                                   ELSE h_runs[f]]
              ELSE /\ h_log' = Append(h_log, "Total integers collected")
                   /\ h_pc' = "histogram"
                   /\ h_runs' = h_runs
    /\ UNCHANGED <<h_disk, h_args, h_counter, h_chart, h_table, gridVars, visVars, expVars>>

\* main, lines 220-231, and create_histogram.
H_CreateHistogram ==
    /\ h_pc = "histogram"
    /\ LET save_path == IF h_args.auto_save /\ ~Truthy(h_args.save_path)
                        THEN Some("arc_histogram_timestamp.png")
                        ELSE h_args.save_path
           chart == create_histogram(h_all, save_path, h_title)
       IN  /\ h_chart' = chart
           /\ h_counter' = chart.counter
    /\ h_log' = Append(h_log, "Generating histogram...")
    /\ h_pc' = "statistics"
    /\ UNCHANGED <<h_disk, h_args, h_all, h_title, h_table, h_runs, gridVars, visVars, expVars>>

\* main, line 234, and print_statistics.
H_PrintStatistics ==
    /\ h_pc = "statistics"
    /\ LET table == print_statistics(h_counter)
       IN  /\ h_table' = table
           /\ h_pc' = IF table.status = "ok" THEN "done" ELSE "crashed"
           /\ h_runs' = [f \in DOMAIN h_runs \cup {Flags(h_args)} |->
                           IF f = Flags(h_args)
                           THEN RunRecord(h_all, Some(h_chart), Some(table))
                           ELSE h_runs[f]]
    /\ UNCHANGED <<h_disk, h_args, h_all, h_title, h_counter, h_chart, h_log,
                   gridVars, visVars, expVars>>

InitHistVars ==
    /\ h_pc = "start"
    /\ h_disk = None
    /\ h_args = None
    /\ h_all = <<>>
    /\ h_title = <<>>
    /\ h_counter = None
    /\ h_chart = None
    /\ h_table = None
    /\ h_log = <<>>
    /\ h_runs = <<>>

(***************************************************************************)
(* The explorer: analyze_data_statistics, find_interesting_challenges,     *)
(* create_statistics_plots and main of arc_explorer.py.                    *)
(***************************************************************************)
MaxExTrain == 2          \* a challenge of the explorer has 0 .. MaxExTrain train examples
MaxExTest == 1           \* a challenge of the explorer has 0 .. MaxExTest test examples
LargeCells == 200        \* large grids have more cells
SmallCells == 10         \* small grids have fewer cells
ManyColors == 5          \* many colors are more unique values
SimpleColors == 2        \* simple patterns have at most this many unique values

\* np.array(grid).shape, .size and .flatten()
Shape(grid) == <<Height(grid), Width(grid)>>
Size(grid) == Height(grid) * Width(grid)
Values(grid) == SeqToSet(Flatten(grid))

\* Faulty variant: descending order.
RECURSIVE Sorted_Descending(_)
Sorted_Descending(set) ==
    IF set = {} THEN <<>>
    ELSE LET top == CHOOSE x \in set : \A y \in set : y <= x
         IN  <<top>> \o Sorted_Descending(set \ {top})

\* sorted(set)
RECURSIVE Sorted(_)
Sorted(set) ==
    IF set = {} THEN <<>>
    ELSE LET least == CHOOSE x \in set : \A y \in set : x <= y
         IN  <<least>> \o Sorted(set \ {least})

\* Tuples of two integers as Python orders them.
TupleLeq(a, b) == a[1] < b[1] \/ (a[1] = b[1] /\ a[2] <= b[2])
MinTuple(seq) ==
    CHOOSE x \in SeqToSet(seq) : \A y \in SeqToSet(seq) : TupleLeq(x, y)
MaxTuple(seq) ==
    CHOOSE x \in SeqToSet(seq) : \A y \in SeqToSet(seq) : TupleLeq(y, x)
MinSeq(seq) == CHOOSE x \in SeqToSet(seq) : \A y \in SeqToSet(seq) : x <= y

\* Faulty variant: only the input grid's values are collected.
ExampleValues_InputOnly(example) == Values(example.input)

\* unique_values.update(input_grid.flatten()); ...update(output_grid.flatten())
ExampleValues(example) == Values(example.input) \cup Values(example.output)

\* analyze_data_statistics, lines 29-43: the loop over the challenges and
\* their train examples.
RECURSIVE AnalyzeExamples(_, _)
AnalyzeExamples(examples, acc) ==
    IF examples = <<>> THEN acc
    ELSE AnalyzeExamples(Tail(examples),
           [acc EXCEPT !.input_sizes = Append(@, Shape(Head(examples).input)),
                       !.output_sizes = Append(@, Shape(Head(examples).output)),
                       !.unique_values = @ \cup ExampleValues(Head(examples))])

RECURSIVE AnalyzeLoop(_, _, _)
AnalyzeLoop(keys, challenges, acc) ==
    IF keys = <<>> THEN acc
    ELSE LET challenge == challenges[Head(keys)]
             counted == [acc EXCEPT !.train_counts = Append(@, Len(challenge.train)),
                                    !.test_counts = Append(@, Len(challenge.test))]
         IN  AnalyzeLoop(Tail(keys), challenges, AnalyzeExamples(challenge.train, counted))

\* analyze_data_statistics: the statistics returned, or the ValueError of
\* min() of an empty list (lines 46 and 55).
analyze_data_statistics(keys, challenges, solutions) ==
    LET acc == AnalyzeLoop(keys, challenges,
                 [train_counts |-> <<>>, test_counts |-> <<>>, input_sizes |-> <<>>,
                  output_sizes |-> <<>>, unique_values |-> {}])
        input_areas == [p \in 1 .. Len(acc.input_sizes) |->
                          acc.input_sizes[p][1] * acc.input_sizes[p][2]]
        output_areas == [p \in 1 .. Len(acc.output_sizes) |->
                           acc.output_sizes[p][1] * acc.output_sizes[p][2]]
    IN  IF acc.train_counts = <<>> \/ acc.input_sizes = <<>>
        THEN [status |-> "ValueError"]
        ELSE [status |-> "ok",
              train_counts |-> acc.train_counts,
              test_counts |-> acc.test_counts,
              input_sizes |-> acc.input_sizes,
              output_sizes |-> acc.output_sizes,
              unique_values |-> Sorted(acc.unique_values),
              printed |-> [train_min |-> MinSeq(acc.train_counts),
                           train_max |-> MaxSeq(acc.train_counts),
                           test_min |-> MinSeq(acc.test_counts),
                           test_max |-> MaxSeq(acc.test_counts),
                           input_size_min |-> MinTuple(acc.input_sizes),
                           input_size_max |-> MaxTuple(acc.input_sizes),
                           output_size_min |-> MinTuple(acc.output_sizes),
                           output_size_max |-> MaxTuple(acc.output_sizes),
                           input_area_min |-> MinSeq(input_areas),
                           input_area_max |-> MaxSeq(input_areas),
                           output_area_min |-> MinSeq(output_areas),
                           output_area_max |-> MaxSeq(output_areas)]]

(***************************************************************************)
(* find_interesting_challenges.                                            *)
(***************************************************************************)
\* Faulty variant: a grid of exactly 200 cells counts as large.
IsLarge_AtLeast(input_size, output_size) ==
    input_size >= LargeCells \/ output_size >= LargeCells

IsLarge(input_size, output_size) == input_size > LargeCells \/ output_size > LargeCells
\* Faulty variant: the comparison is turned around.
IsSmall_Above(input_size, output_size) == input_size > SmallCells \/ output_size > SmallCells

IsSmall(input_size, output_size) == input_size < SmallCells \/ output_size < SmallCells
HasManyColors(unique_input, unique_output) ==
    unique_input > ManyColors \/ unique_output > ManyColors
IsSimple(unique_input, unique_output) ==
    unique_input <= SimpleColors /\ unique_output <= SimpleColors
SizeChanges(input_grid, output_grid) == Shape(input_grid) # Shape(output_grid)

\* Lines 82-109: the categories one train example puts its challenge in.
ExampleCategories(example) ==
    LET input_size == Size(example.input)
        output_size == Size(example.output)
        unique_input == Cardinality(Values(example.input))
        unique_output == Cardinality(Values(example.output))
    IN  [large_grids |-> IsLarge(input_size, output_size),
         small_grids |-> IsSmall(input_size, output_size),
         many_colors |-> HasManyColors(unique_input, unique_output),
         simple_patterns |-> IsSimple(unique_input, unique_output),
         size_changes |-> SizeChanges(example.input, example.output)]

Categories == {"large_grids", "small_grids", "many_colors", "simple_patterns", "size_changes"}

\* The list a category has after the loops: the id of the challenge once
\* for every train example that qualifies.
RECURSIVE AppendedExamples(_, _, _)
AppendedExamples(challenge_id, examples, category) ==
    IF examples = <<>> THEN <<>>
    ELSE (IF ExampleCategories(Head(examples))[category] THEN <<challenge_id>> ELSE <<>>)
           \o AppendedExamples(challenge_id, Tail(examples), category)

RECURSIVE Appended(_, _, _)
Appended(keys, challenges, category) ==
    IF keys = <<>> THEN <<>>
    ELSE AppendedExamples(Head(keys), challenges[Head(keys)].train, category)
           \o Appended(Tail(keys), challenges, category)

\* list(set(list)): the distinct elements, in any order.
Deduplicated(list) == Samples(SeqToSet(list), Cardinality(SeqToSet(list)))

(***************************************************************************)
(* create_statistics_plots: the data of the six plots.                     *)
(***************************************************************************)
create_statistics_plots(stats) ==
    [train_bins |-> [lo |-> 1, hi |-> MaxSeq(stats.train_counts) + 2],
     test_bins |-> [lo |-> 1, hi |-> MaxSeq(stats.test_counts) + 2],
     input_areas |-> [p \in 1 .. Len(stats.input_sizes) |->
                        stats.input_sizes[p][1] * stats.input_sizes[p][2]],
     output_areas |-> [p \in 1 .. Len(stats.output_sizes) |->
                         stats.output_sizes[p][1] * stats.output_sizes[p][2]],
     input_heights |-> [p \in 1 .. Len(stats.input_sizes) |-> stats.input_sizes[p][1]],
     input_widths |-> [p \in 1 .. Len(stats.input_sizes) |-> stats.input_sizes[p][2]],
     color_ticks |-> stats.unique_values,
     shown |-> TRUE]

(***************************************************************************)
(* The explorer's data and main.                                           *)
(***************************************************************************)
ExTrainExample(e) ==
    CASE e = 1 -> [input |-> PatternGrid(2, 2, 1, 1), output |-> PatternGrid(2, 2, 2, 1)]
      [] e = 2 -> [input |-> PatternGrid(2, 5, 3, 2), output |-> PatternGrid(2, 5, 3, 3)]
      [] e = 3 -> [input |-> PatternGrid(10, 20, 0, 5), output |-> PatternGrid(10, 20, 2, 5)]
      [] e = 4 -> [input |-> PatternGrid(10, 20, 0, 5), output |-> PatternGrid(14, 15, 1, 6)]
      [] e = 5 -> [input |-> PatternGrid(2, 5, 6, 2), output |-> PatternGrid(5, 2, 6, 2)]
ExTrainExamples == 1 .. 5

ExTestExample(t) ==
    CASE t = 1 -> [input |-> PatternGrid(1, 1, 8, 1)]
      [] t = 2 -> [input |-> PatternGrid(14, 15, 4, 6)]
ExTestExamples == 1 .. 2

ExChallenges ==
    {[train |-> [p \in 1 .. n |-> ExTrainExample(tr[p])],
      test |-> [p \in 1 .. m |-> ExTestExample(te[p])]] :
        <<n, m, tr, te>> \in
          {<<n, m, tr, te>> \in (0 .. MaxExTrain) \X (0 .. MaxExTest)
                                  \X [1 .. MaxExTrain -> ExTrainExamples]
                                  \X [1 .. MaxExTest -> ExTestExamples] :
              /\ \A p \in 1 .. MaxExTrain : p > n => tr[p] = 1
              /\ \A p \in 1 .. MaxExTest : p > m => te[p] = 1}}

ExSecondChallenges ==
    {[train |-> <<ExTrainExample(1)>>, test |-> <<ExTestExample(1)>>],
     [train |-> <<ExTrainExample(4), ExTrainExample(4)>>, test |-> <<>>]}

\* main, lines 212-226: the two files are loaded.
E_Main ==
    /\ e_pc = "start"
    /\ \E keys \in {<<>>, <<"x">>, <<"x", "y">>, <<"y", "x">>},
          x \in ExChallenges, y \in ExSecondChallenges :
         /\ keys = <<>> => (x.train = <<>> /\ x.test = <<>>)
         /\ "y" \notin SeqToSet(keys) => y.test = <<>>
         /\ e_keys' = keys
         /\ e_challenges' = [k \in SeqToSet(keys) |-> IF k = "x" THEN x ELSE y]
         /\ e_solutions' = [k \in SeqToSet(keys) |->
                              [p \in 1 .. Len((IF k = "x" THEN x ELSE y).test) |->
                                 PatternGrid(1, 1, 9, 1)]]
    /\ e_pc' = "loaded"
    /\ UNCHANGED <<e_stats, e_interesting, e_plots, e_recs, gridVars, visVars, histVars>>

\* Faulty variant: the ValueError is swallowed and the run goes on.
E_Analyze_Recovers ==
    /\ e_pc = "loaded"
    /\ LET stats == analyze_data_statistics(e_keys, e_challenges, e_solutions)
       IN  IF stats.status = "ok"
           THEN e_stats' = stats /\ e_pc' = "analyzed"
           ELSE e_stats' = e_stats /\ e_pc' = "analyzed"
    /\ UNCHANGED <<e_keys, e_challenges, e_solutions, e_interesting, e_plots, e_recs,
                   gridVars, visVars, histVars>>

\* main, line 229, and analyze_data_statistics; the ValueError is not caught.
E_Analyze ==
    /\ e_pc = "loaded"
    /\ LET stats == analyze_data_statistics(e_keys, e_challenges, e_solutions)
       IN  IF stats.status = "ok"
           THEN e_stats' = stats /\ e_pc' = "analyzed"
           ELSE e_stats' = e_stats /\ e_pc' = "crashed"
    /\ UNCHANGED <<e_keys, e_challenges, e_solutions, e_interesting, e_plots, e_recs,
                   gridVars, visVars, histVars>>

\* main, line 232, and find_interesting_challenges.
E_FindInteresting ==
    /\ e_pc = "analyzed"
    /\ \E large_grids \in Deduplicated(Appended(e_keys, e_challenges, "large_grids")),
          small_grids \in Deduplicated(Appended(e_keys, e_challenges, "small_grids")),
          many_colors \in Deduplicated(Appended(e_keys, e_challenges, "many_colors")),
          simple_patterns \in Deduplicated(Appended(e_keys, e_challenges, "simple_patterns")),
          size_changes \in Deduplicated(Appended(e_keys, e_challenges, "size_changes")) :
         e_interesting' = [large_grids |-> large_grids,
                           small_grids |-> small_grids,
                           many_colors |-> many_colors,
                           simple_patterns |-> simple_patterns,
                           size_changes |-> size_changes]
    /\ e_pc' = "found"
    /\ UNCHANGED <<e_keys, e_challenges, e_solutions, e_stats, e_plots, e_recs,
                   gridVars, visVars, histVars>>

\* main, line 235, and create_statistics_plots.
E_Plots ==
    /\ e_pc = "found"
    /\ e_plots' = create_statistics_plots(e_stats)
    /\ e_pc' = "plotted"
    /\ UNCHANGED <<e_keys, e_challenges, e_solutions, e_stats, e_interesting, e_recs,
                   gridVars, visVars, histVars>>

\* random.choice(list) when the list is not empty: any element of it.
Choices(label, list) ==
    IF list = <<>> THEN {<<>>} ELSE {<<[label |-> label, id |-> id]>> : id \in SeqToSet(list)}

\* main, lines 237-261: the recommendations.
E_Recommend ==
    /\ e_pc = "plotted"
    /\ \E simple \in Choices("Simple patterns", e_interesting.simple_patterns),
          changes \in Choices("Size changes", e_interesting.size_changes),
          colors \in Choices("Many colors", e_interesting.many_colors),
          large \in Choices("Large grids", e_interesting.large_grids) :
         e_recs' = simple \o changes \o colors \o large
    /\ e_pc' = "done"
    /\ UNCHANGED <<e_keys, e_challenges, e_solutions, e_stats, e_interesting, e_plots,
                   gridVars, visVars, histVars>>

InitExpVars ==
    /\ e_pc = "start"
    /\ e_keys = <<>>
    /\ e_challenges = <<>>
    /\ e_solutions = <<>>
    /\ e_stats = None
    /\ e_interesting = None
    /\ e_plots = None
    /\ e_recs = <<>>

(***************************************************************************)
(* The specifications: one per tool.                                       *)
(***************************************************************************)
Init == InitGridVars /\ InitVisVars /\ InitHistVars /\ InitExpVars

NextGrid == PlotGrid
SpecGrid == Init /\ [][NextGrid]_vars

NextVis ==
    \/ V_Main
    \/ V_NotFound
    \/ V_SingleSetup
    \/ V_RandomSetup
    \/ V_Figure
    \/ V_Save
    \/ V_Close
    \/ V_Finish
SpecVis == Init /\ [][NextVis]_vars

NextHist ==
    \/ H_Main
    \/ H_LoadError
    \/ H_Collect
    \/ H_CreateHistogram
    \/ H_PrintStatistics
SpecHist == Init /\ [][NextHist]_vars

NextExp ==
    \/ E_Main
    \/ E_Analyze
    \/ E_FindInteresting
    \/ E_Plots
    \/ E_Recommend
SpecExp == Init /\ [][NextExp]_vars

(***************************************************************************)
(* Properties of the renderer.                                             *)
(***************************************************************************)
PgCalled == pg_in # None
PgHeight == Height(pg_in.grid)
PgWidth == Width(pg_in.grid)
PgCap == pg_in.max_size

\* The canvas is cap x cap, holds the grid unchanged in the centred region
\* and the padding value everywhere else.
PgCentredCanvas ==
    LET start_h == (PgCap - PgHeight) \div 2
        start_w == (PgCap - PgWidth) \div 2
        InRegion(i, j) == /\ i >= start_h /\ i < start_h + PgHeight
                          /\ j >= start_w /\ j < start_w + PgWidth
    IN  /\ pg_out.status = "ok"
        /\ pg_out.display_height = PgCap
        /\ pg_out.display_width = PgCap
        /\ Len(pg_out.display_grid) = PgCap
        /\ \A i \in 0 .. PgCap - 1 :
              /\ Len(pg_out.display_grid[i + 1]) = PgCap
              /\ \A j \in 0 .. PgCap - 1 :
                    IF InRegion(i, j)
                    THEN pg_out.display_grid[i + 1][j + 1]
                           = pg_in.grid[i - start_h + 1][j - start_w + 1]
                    ELSE pg_out.display_grid[i + 1][j + 1] = PaddingValue
        /\ start_h >= 0 /\ start_h + PgHeight <= PgCap
        /\ start_w >= 0 /\ start_w + PgWidth <= PgCap

\* C1 as stated: every grid with a side below the cap, whatever the other
\* side, gets the centred cap x cap canvas.
C1_AnySideBelowCap ==
    (PgCalled /\ (PgHeight < PgCap \/ PgWidth < PgCap)) => PgCentredCanvas

\* C1 amended: a grid with a side below the cap and no side above it gets the
\* cap x cap canvas with the grid unchanged in the centred region and the
\* padding value -1 in every other cell; a grid with one side below the cap
\* and the other above it makes plot_grid fail with an error, without canvas.
C1_PaddedCanvasWithinCap ==
    PgCalled =>
      /\ (/\ PgHeight < PgCap \/ PgWidth < PgCap
          /\ PgHeight <= PgCap /\ PgWidth <= PgCap) => PgCentredCanvas
      /\ (/\ PgHeight < PgCap \/ PgWidth < PgCap
          /\ PgHeight > PgCap \/ PgWidth > PgCap) => pg_out.status = "ValueError"

\* A grid lower than the default cap and exactly as wide as it was padded.
C1_Witness ==
    /\ PgCalled
    /\ PgCap = DefaultMaxSize /\ PgHeight = 2 /\ PgWidth = DefaultMaxSize
    /\ pg_out.status = "ok"
    /\ pg_out.display_grid[1][1] = PaddingValue
    /\ pg_out.display_grid[15][1] = pg_in.grid[1][1]

\* C2: a grid with both sides at or above the cap is displayed as it is: the
\* display has the grid's own height and width and the grid's own cells.
C2_NativeSizeAtOrAboveCap ==
    (PgCalled /\ PgHeight >= PgCap /\ PgWidth >= PgCap) =>
        /\ pg_out.status = "ok"
        /\ pg_out.display_height = PgHeight
        /\ pg_out.display_width = PgWidth
        /\ pg_out.display_grid = pg_in.grid
        /\ \A i \in 1 .. PgHeight : \A j \in 1 .. PgWidth :
              pg_out.display_grid[i][j] # PaddingValue

\* A grid higher than the default cap and exactly as wide as it was drawn.
C2_Witness ==
    /\ PgCalled
    /\ PgCap = DefaultMaxSize
    /\ PgHeight = DefaultMaxSize + 1 /\ PgWidth = DefaultMaxSize
    /\ pg_out.status = "ok"
    /\ pg_out.display_height = DefaultMaxSize + 1

(***************************************************************************)
(* Properties of the challenge composer.                                   *)
(***************************************************************************)
FigComposed == v_fig # None
FigChallenge == v_challenges[v_fig.challenge_id]
FigSolutions == Get(v_solutions, v_fig.challenge_id)
FigPanels == {v_fig.panels[p] : p \in 1 .. Len(v_fig.panels)}
PanelsTitled(title) == {p \in FigPanels : p.title = title}
PanelsAt(row, col) == {p \in FigPanels : p.row = row /\ p.col = col}

\* C5: every test example i has its input panel and one panel titled
\* 'Test i+1 Solution'; that panel shows the solution grid exactly when a
\* solution list is present and i is within its length, and is otherwise the
\* placeholder with the text 'No Solution Available'; nothing is raised.
C5_SolutionOrPlaceholder ==
    FigComposed =>
      /\ v_fig.status = "ok"
      /\ \A i \in 0 .. Len(FigChallenge.test) - 1 :
           LET present == FigSolutions.some /\ i < Len(FigSolutions.val)
               inputs == PanelsTitled(Title("Test", i + 1, "Input"))
               answers == PanelsTitled(Title("Test", i + 1, "Solution"))
           IN  /\ Cardinality(inputs) = 1
               /\ \A p \in inputs :
                    p.kind = "grid" /\ p.grid = FigChallenge.test[i + 1].input
               /\ Cardinality(answers) = 1
               /\ \A p \in answers :
                    IF present
                    THEN p.kind = "grid" /\ p.grid = FigSolutions.val[i + 1]
                    ELSE p.kind = "placeholder" /\ p.text = "No Solution\nAvailable"

\* Two test examples and a solution list of one grid: the first test example
\* got its solution grid, the second the placeholder.
C5_Witness ==
    /\ FigComposed
    /\ Len(FigChallenge.test) = 2
    /\ FigSolutions.some /\ Len(FigSolutions.val) = 1
    /\ \E p \in PanelsTitled(Title("Test", 1, "Solution")) : p.kind = "grid"
    /\ \E p \in PanelsTitled(Title("Test", 2, "Solution")) : p.kind = "placeholder"

\* C6: the figure has 2 rows and max(2n, 2m) columns; train example i is in
\* row 1 at columns 2i+1 and 2i+2, test example i in row 2 at columns 2i+1
\* and 2i+2; every panel is inside the grid, no two panels share a position
\* and every other position is blank; one train and one test example with a
\* solution give the four grid panels of a 2 x 2 figure and no placeholder.
C6_TwoRowLayout ==
    FigComposed =>
      LET n == Len(FigChallenge.train)
          m == Len(FigChallenge.test)
          cols == IF 2 * n >= 2 * m THEN 2 * n ELSE 2 * m
          At(title, row, col) ==
              /\ PanelsTitled(title) = PanelsAt(row, col)
              /\ Cardinality(PanelsAt(row, col)) = 1
      IN  /\ v_fig.status = "ok"
          /\ v_fig.nrows = 2
          /\ v_fig.max_cols = cols
          /\ \A i \in 0 .. n - 1 :
               /\ At(Title("Train", i + 1, "Input"), 1, 2 * i + 1)
               /\ At(Title("Train", i + 1, "Output"), 1, 2 * i + 2)
          /\ \A i \in 0 .. m - 1 :
               /\ At(Title("Test", i + 1, "Input"), 2, 2 * i + 1)
               /\ At(Title("Test", i + 1, "Solution"), 2, 2 * i + 2)
          /\ \A p \in FigPanels : p.row \in 1 .. 2 /\ p.col \in 1 .. cols
          /\ \A a, b \in 1 .. Len(v_fig.panels) :
               a # b => v_fig.panels[a].pos # v_fig.panels[b].pos
          /\ \A c \in 1 .. cols :
               /\ c > 2 * n => PanelsAt(1, c) = {}
               /\ c > 2 * m => PanelsAt(2, c) = {}
          /\ (n = 1 /\ m = 1 /\ FigSolutions.some /\ Len(FigSolutions.val) >= 1) =>
               /\ cols = 2
               /\ Len(v_fig.panels) = 4
               /\ \A p \in FigPanels : p.kind = "grid"

\* One train and two test examples: four columns, of which row 1 uses two.
C6_Witness ==
    /\ FigComposed
    /\ Len(FigChallenge.train) = 1 /\ Len(FigChallenge.test) = 2
    /\ v_fig.max_cols = 4
    /\ Cardinality(PanelsAt(1, 2)) = 1 /\ PanelsAt(1, 3) = {}
    /\ Cardinality(PanelsAt(2, 4)) = 1

(***************************************************************************)
(* Properties of the histogram tool.                                       *)
(***************************************************************************)
ChartDrawn == h_chart # None
TablePrinted == h_table # None
CountIn(seq, v) == Cardinality({p \in 1 .. Len(seq) : seq[p] = v})

\* C3: the ten frequencies of the chart, one per palette value 0 .. 9, are
\* the numbers of cells with that value among the integers collected; they
\* sum to the number of integers collected, which is the total the chart
\* shows, and the total print_statistics prints is the same number.
C3_CountsSumToCells ==
    /\ ChartDrawn =>
         /\ Len(h_chart.frequencies) = 10
         /\ \A v \in 0 .. 9 : h_chart.frequencies[v + 1] = CountIn(h_all, v)
         /\ SumSeq(h_chart.frequencies) = Len(h_all)
         /\ h_chart.total_count = Len(h_all)
    /\ TablePrinted =>
         /\ h_table.total = h_chart.total_count
         /\ h_table.total = Len(h_all)

\* Both statistics were produced for data in which the value 9 occurs.
C3_Witness ==
    /\ ChartDrawn /\ TablePrinted
    /\ h_chart.frequencies[10] > 0
    /\ h_table.total > 4

RunT == [training_only |-> TRUE, test_only |-> FALSE]
RunS == [training_only |-> FALSE, test_only |-> TRUE]
RunD == [training_only |-> FALSE, test_only |-> FALSE]
RunFreq(run, v) == IF run.chart.some THEN run.chart.val.frequencies[v + 1] ELSE 0
RunTotal(run) == IF run.chart.some THEN run.chart.val.total_count ELSE 0

\* C4: on the same files, the total of the --training-only run plus the
\* total of the --test-only run is the total of the run without flags, and
\* so is each of the ten per-value counts (a run that selects no cell
\* reports no histogram and counts as zero).
C4_SubsetRunsAddUp ==
    {RunT, RunS, RunD} \subseteq DOMAIN h_runs =>
      /\ h_runs[RunT].collected + h_runs[RunS].collected = h_runs[RunD].collected
      /\ RunTotal(h_runs[RunT]) + RunTotal(h_runs[RunS]) = RunTotal(h_runs[RunD])
      /\ \A r \in {RunT, RunS, RunD} : RunTotal(h_runs[r]) = h_runs[r].collected
      /\ \A v \in 0 .. 9 :
           RunFreq(h_runs[RunT], v) + RunFreq(h_runs[RunS], v) = RunFreq(h_runs[RunD], v)

\* The three runs were made on files that both hold cells.
C4_Witness ==
    /\ {RunT, RunS, RunD} \subseteq DOMAIN h_runs
    /\ h_runs[RunT].chart.some /\ h_runs[RunS].chart.some
    /\ h_runs[RunT].collected # h_runs[RunS].collected

\* The lowest palette value among those with the largest count, and among
\* those with the smallest count that is not zero.
LowestMostFrequent ==
    LET most == CHOOSE c \in {CountIn(h_all, v) : v \in 0 .. 9} :
                    \A v \in 0 .. 9 : CountIn(h_all, v) <= c
    IN  CHOOSE v \in 0 .. 9 :
            CountIn(h_all, v) = most /\ \A u \in 0 .. v - 1 : CountIn(h_all, u) # most
LowestLeastFrequent ==
    LET least == CHOOSE c \in {CountIn(h_all, v) : v \in 0 .. 9} \ {0} :
                    \A v \in 0 .. 9 : CountIn(h_all, v) > 0 => CountIn(h_all, v) >= c
    IN  CHOOSE v \in 0 .. 9 :
            CountIn(h_all, v) = least /\ \A u \in 0 .. v - 1 : CountIn(h_all, u) # least

\* C9: the most and the least frequent value (the least among the values
\* that occur) are, in the chart's statistics box and in the printed table
\* alike, the lowest palette index among the tied values, whatever the order
\* in which the values first occur in the data.
C9_LowestIndexWinsTies ==
    /\ ChartDrawn =>
         /\ h_chart.most_common = LowestMostFrequent
         /\ h_chart.least_common = LowestLeastFrequent
    /\ (TablePrinted /\ h_table.status = "ok") =>
         /\ h_table.most_common[1] = LowestMostFrequent
         /\ h_table.least_common[1] = LowestLeastFrequent

\* The chart alone keeps to the lowest index.
C9_ChartLowestIndex ==
    ChartDrawn =>
      /\ h_chart.most_common = LowestMostFrequent
      /\ h_chart.least_common = LowestLeastFrequent

\* The printed table takes, among the tied values, the one seen first.
C9_TableFirstSeen ==
    (TablePrinted /\ h_table.status = "ok") =>
      LET firstAt(v) == CHOOSE p \in 1 .. Len(h_all) :
                            h_all[p] = v /\ \A q \in 1 .. p - 1 : h_all[q] # v
          mc == h_table.most_common[1]
          lc == h_table.least_common[1]
      IN  /\ CountIn(h_all, mc) = CountIn(h_all, LowestMostFrequent)
          /\ \A v \in 0 .. 9 : (v # mc /\ CountIn(h_all, v) = CountIn(h_all, mc))
                                  => firstAt(mc) < firstAt(v)
          /\ CountIn(h_all, lc) = CountIn(h_all, LowestLeastFrequent)
          /\ \A v \in 0 .. 9 : (v # lc /\ CountIn(h_all, v) = CountIn(h_all, lc))
                                  => firstAt(lc) < firstAt(v)

(***************************************************************************)
(* Properties of the explorer.                                             *)
(***************************************************************************)
Analyzed == e_stats # None
CellsOf(grid) == {grid[i][j] : <<i, j>> \in (1 .. Len(grid)) \X (1 .. Len(grid[1]))}
TrainExamplesOf(id) == {e_challenges[id].train[p] : p \in 1 .. Len(e_challenges[id].train)}
TestExamplesOf(id) == {e_challenges[id].test[p] : p \in 1 .. Len(e_challenges[id].test)}
TrainValues ==
    UNION {CellsOf(ex.input) \cup CellsOf(ex.output) :
             ex \in UNION {TrainExamplesOf(id) : id \in DOMAIN e_challenges}}
TestValues ==
    UNION {CellsOf(ex.input) :
             ex \in UNION {TestExamplesOf(id) : id \in DOMAIN e_challenges}}
ReportedValues == {e_stats.unique_values[p] : p \in 1 .. Len(e_stats.unique_values)}

\* C7 as stated: the reported values hold the values of every grid of every
\* example, the inputs of the test examples as well as the train examples.
C7_TrainAndTestValues ==
    Analyzed => (TrainValues \cup TestValues) \subseteq ReportedValues

\* C7 amended: the distinct values reported are exactly the values of the
\* input and output grids of the train examples of all challenges; the grids
\* of the test examples are not scanned, so a value that occurs only in a
\* test example's input is not reported.
C7_TrainValuesOnly ==
    Analyzed => ReportedValues = TrainValues

\* The statistics of data in which a test input has a value no train grid has.
C7_Witness ==
    /\ Analyzed
    /\ TestValues \ TrainValues # {}
    /\ Len(e_stats.unique_values) >= 2

Found == e_interesting # None
Listed(category) ==
    {e_interesting[category][p] : p \in 1 .. Len(e_interesting[category])}
Area(grid) == Len(grid) * Len(grid[1])
Distinct(grid) == Cardinality(CellsOf(grid))
GridsOfTrain(id) == UNION {{ex.input, ex.output} : ex \in TrainExamplesOf(id)}
GridsOfAll(id) == GridsOfTrain(id) \cup {ex.input : ex \in TestExamplesOf(id)}
NoDuplicates(seq) == \A p, q \in 1 .. Len(seq) : p # q => seq[p] # seq[q]

\* The categories of a challenge whose examples have the grids `grids` and
\* the input/output pairs `pairs`.
CategoriesHold(id, grids, pairs) ==
    /\ id \in Listed("large_grids") <=> \E g \in grids : Area(g) > 200
    /\ id \in Listed("small_grids") <=> \E g \in grids : Area(g) < 10
    /\ id \in Listed("many_colors") <=> \E g \in grids : Distinct(g) > 5
    /\ id \in Listed("simple_patterns") <=>
         \E ex \in pairs : Distinct(ex.input) <= 2 /\ Distinct(ex.output) <= 2
    /\ id \in Listed("size_changes") <=>
         \E ex \in pairs : \/ Len(ex.input) # Len(ex.output)
                           \/ Len(ex.input[1]) # Len(ex.output[1])

\* C10 as stated: the categories are decided by any example of the
\* challenge, the test examples (which have an input grid) included.
C10_AnyExample ==
    Found =>
      /\ \A id \in DOMAIN e_challenges :
           CategoriesHold(id, GridsOfAll(id), TrainExamplesOf(id))
      /\ \A c \in Categories : NoDuplicates(e_interesting[c])

\* C10 amended: a challenge is 'large' exactly when one of its train
\* examples has an input or output area > 200, 'small' exactly when one has
\* an area < 10, 'many colors' exactly when a grid of a train example has
\* > 5 distinct values, 'simple' exactly when a train example has <= 2
\* distinct values in both its input and its output, 'size-changing' exactly
\* when a train example's input and output shapes differ; test examples are
\* not looked at; each category lists a challenge at most once.
C10_TrainExamplesDecide ==
    Found =>
      /\ \A id \in DOMAIN e_challenges :
           CategoriesHold(id, GridsOfTrain(id), TrainExamplesOf(id))
      /\ \A c \in Categories :
           /\ NoDuplicates(e_interesting[c])
           /\ Listed(c) \subseteq DOMAIN e_challenges

\* Two challenges: one in several categories, twice over by its two large
\* train examples, and one in no category although its test input is large.
C10_Witness ==
    /\ Found
    /\ \E id \in DOMAIN e_challenges :
         /\ id \in Listed("large_grids") \cap Listed("many_colors") \cap Listed("size_changes")
         /\ Len(e_challenges[id].train) = 2
         /\ \A ex \in TrainExamplesOf(id) : Area(ex.output) > 200
    /\ \E id \in DOMAIN e_challenges :
         /\ \A c \in Categories : id \notin Listed(c)
         /\ \E ex \in TestExamplesOf(id) : Area(ex.input) > 200

\* The train example with input [[1,1],[1,1]] and output [[2,2],[2,2]], the
\* challenges that have it, and the other train examples of such a challenge.
OnesToTwos == [input |-> << <<1, 1>>, <<1, 1>> >>, output |-> << <<2, 2>>, <<2, 2>> >>]
WithOnesToTwos == {id \in DOMAIN e_challenges : OnesToTwos \in TrainExamplesOf(id)}
OtherTrainGrids(id) == UNION {{ex.input, ex.output} : ex \in TrainExamplesOf(id) \ {OnesToTwos}}

\* C11 as stated: such a challenge is 'small' and 'simple', and it is
\* 'large' only if no other example of it exceeds area 200.
C11_LargeOnlyIfNoOtherLarge ==
    Found =>
      \A id \in WithOnesToTwos :
        /\ id \in Listed("small_grids") /\ id \in Listed("simple_patterns")
        /\ id \in Listed("large_grids") =>
             ~ \E g \in OtherTrainGrids(id) : Area(g) > 200

\* C11 amended: such a challenge is 'small' and 'simple'; the example itself
\* does not make it 'many colors', 'size-changing' or 'large': it is in each
\* of these exactly when another of its train examples qualifies, so it is
\* 'large' only if some other train example exceeds area 200.
C11_LargeOnlyByOtherExample ==
    Found =>
      \A id \in WithOnesToTwos :
        /\ id \in Listed("small_grids") /\ id \in Listed("simple_patterns")
        /\ id \in Listed("many_colors") <=>
             \E g \in OtherTrainGrids(id) : Distinct(g) > 5
        /\ id \in Listed("size_changes") <=>
             \E ex \in TrainExamplesOf(id) \ {OnesToTwos} :
                 <<Len(ex.input), Len(ex.input[1])>> # <<Len(ex.output), Len(ex.output[1])>>
        /\ id \in Listed("large_grids") <=>
             \E g \in OtherTrainGrids(id) : Area(g) > 200

\* A challenge with that example alone, in 'small' and 'simple' only, beside
\* a challenge that has it together with a large example and is 'large'.
C11_Witness ==
    /\ Found
    /\ \E id \in WithOnesToTwos :
         /\ Len(e_challenges[id].train) = 1
         /\ id \in Listed("small_grids") \cap Listed("simple_patterns")
         /\ id \notin Listed("large_grids") \cup Listed("many_colors") \cup Listed("size_changes")
    /\ \E id \in WithOnesToTwos :
         /\ Len(e_challenges[id].train) = 2
         /\ id \in Listed("large_grids") \cap Listed("small_grids")

(***************************************************************************)
(* Properties of the visualizer's main.                                    *)
(***************************************************************************)
UnknownIdRequested ==
    /\ v_pc = "loaded"
    /\ Truthy(v_args.challenge_id)
    /\ v_args.challenge_id.val \notin {v_keys[p] : p \in 1 .. Len(v_keys)}

\* C12: when --challenge-id names an id that is not among the loaded
\* challenges, the next step of main reports it as not found and main
\* returns: no directory is created, no figure is built or left open, no
\* image is written and nothing is queued for visualization.
C12_UnknownIdNoSideEffect ==
    [][UnknownIdRequested =>
         /\ v_pc' = "done"
         /\ v_log' = Append(v_log, [msg |-> "not found", id |-> v_args.challenge_id.val])
         /\ v_dirs' = v_dirs
         /\ v_files' = {} /\ v_files = {}
         /\ v_fig' = None
         /\ v_open' = <<>>
         /\ v_queue' = <<>>]_vars

\* main has returned after reporting the unknown id 'zz' although a save
\* directory was asked for and challenges were loaded.
C12_Witness ==
    /\ v_pc = "done"
    /\ v_log[Len(v_log)] = [msg |-> "not found", id |-> "zz"]
    /\ Truthy(v_args.save_dir)
    /\ v_keys # <<>>
    /\ v_dirs = {} /\ v_files = {} /\ v_fig = None

RandomMode == v_pc \notin {"start"} /\ ~Truthy(v_args.challenge_id)
SavedIds == {id \in DOMAIN v_challenges : SavePath(v_save_dir, id) \in v_files}

\* C13: in a run over a sample of challenges at most one figure is open at
\* any point; whenever the next figure is about to be created no figure is
\* open and the figures of the challenges handled so far have been written;
\* a figure is only closed once its image is written; and when the last
\* challenge has been handled no figure remains open.
C13_OneFigureAtATime ==
    RandomMode =>
      /\ Len(v_open) <= 1
      /\ v_open # <<>> => (v_fig # None /\ v_open = <<v_fig.challenge_id>>)
      /\ v_pc = "visualize" =>
           /\ v_open = <<>> /\ v_fig = None
           /\ \A id \in SavedIds : id \notin {v_queue[p] : p \in 1 .. Len(v_queue)}
           /\ Cardinality(SavedIds) + Len(v_queue)
                = Min2(v_args.n_samples, Len(v_keys))
      /\ v_pc = "close" => v_fig.challenge_id \in SavedIds
      /\ v_pc \in {"finish", "done"} =>
           /\ v_open = <<>> /\ v_fig = None /\ v_queue = <<>>
           /\ Cardinality(SavedIds) = Min2(v_args.n_samples, Len(v_keys))

\* Between the first and the second challenge of a sample of two: the first
\* image is written, its figure closed, the second figure not yet created.
C13_Witness ==
    /\ RandomMode
    /\ v_pc = "visualize"
    /\ Cardinality(v_files) = 1
    /\ Len(v_queue) = 1
    /\ v_open = <<>>

(***************************************************************************)
(* Properties of the explorer's run on an empty mapping.                   *)
(***************************************************************************)
EmptyMappingAnalyzed == e_pc \notin {"start", "loaded"} /\ e_keys = <<>>

\* C14: once analyze_data_statistics has been called with an empty challenge
\* mapping the run is in the error state and stays there: no statistics were
\* returned, and no later step of main (interesting challenges, plots,
\* recommendations) has run.
C14_EmptyMappingFails ==
    EmptyMappingAnalyzed =>
      /\ e_pc = "crashed"
      /\ analyze_data_statistics(e_keys, e_challenges, e_solutions).status = "ValueError"
      /\ e_stats = None
      /\ e_interesting = None
      /\ e_plots = None
      /\ e_recs = <<>>
      /\ ~ENABLED NextExp

C14_Witness == e_pc = "crashed" /\ e_keys = <<>> /\ e_stats = None

(***************************************************************************)
(* Properties of the histogram tool's data selection.                      *)
(***************************************************************************)
Collected == h_pc \in {"histogram", "statistics", "done", "crashed"}
TitleParts == {h_title[p] : p \in 1 .. Len(h_title)}
SelectedIntegers ==
    (IF h_args.test_only THEN <<>> ELSE extract_all_integers(h_disk.train))
      \o (IF h_args.training_only THEN <<>> ELSE extract_all_integers(h_disk.test))

\* C15: after the collection step the training data is part of the run
\* exactly when --test-only is not set and the evaluation data exactly when
\* --training-only is not set; with both flags set nothing is collected, "No
\* data selected!" is reported and the run is over with no histogram and no
\* statistics; and create_histogram and print_statistics are only reached
\* with a non-empty list of integers, so print_statistics never fails.
C15_FlagsSelectData ==
    /\ h_pc # "crashed"
    /\ Collected =>
         /\ ("Training" \in TitleParts) <=> ~h_args.test_only
         /\ ("Test" \in TitleParts) <=> ~h_args.training_only
         /\ h_all = SelectedIntegers
         /\ (h_args.training_only /\ h_args.test_only) =>
              /\ h_all = <<>>
              /\ h_title = <<>>
              /\ h_pc = "done"
              /\ h_log[Len(h_log)] = "No data selected!"
              /\ h_counter = None /\ h_chart = None /\ h_table = None
         /\ h_pc \in {"histogram", "statistics"} => h_all # <<>>
         /\ h_chart # None => (h_all # <<>> /\ h_chart.total_count = Len(h_all))
         /\ h_table # None => (h_all # <<>> /\ h_table.status = "ok")

\* Both flags given over data files that do hold integers.
C15_Witness ==
    /\ h_pc = "done"
    /\ h_args.training_only /\ h_args.test_only
    /\ extract_all_integers(h_disk.train) # <<>>
    /\ extract_all_integers(h_disk.test) # <<>>
    /\ h_log[Len(h_log)] = "No data selected!"
    /\ h_chart = None

====
